---- MODULE Spec2Model ----
(***************************************************************************)
(* The endless-runner engine of the Game component: the phase machine,     *)
(* the per-frame update (score, speed, scroll, physics, spawn, move, cull, *)
(* collision, high-score commit), the action press, the resize handler,    *)
(* state construction and the live-tunable PhysicsConfig.                  *)
(*                                                                         *)
(* Numbers are fixed-point integers:                                       *)
(*   positions, velocities, speeds, gravity   1/100 px   (Centi)           *)
(*   score                                    1/10000 point (ScoreUnit)    *)
(*   speedRate                                1/1000                       *)
(*   far / near scroll offsets                1/10000 px                   *)
(*   t, dt                                    ms                           *)
(*   frameTick, nextGap                       1/100 ms                     *)
(* A JavaScript Number that may be NaN (hiScore) is a record               *)
(* [nan, v]; a JavaScript string (the stored high score) is a sequence of  *)
(* one-character strings, and a missing key is Null.                       *)
(***************************************************************************)
EXTENDS Integers, Sequences, FiniteSets, TLC

\* ------------------------------------------------------------------ bounds
\* Consecutive frames (loop invocations) in the Playing phase.
MaxFrames == 29
\* Consecutive frames in the Intro or the GameOver phase.
MaxIdleFrames == 2
\* Consecutive Playing frames while the settings panel is in use (SpecTune).
MaxTuneFrames == 4
\* GameState instances constructed in one page lifetime (1 + retries).
MaxRuns == 2
\* Resize events in one page lifetime.
MaxResizes == 1
\* Slider / reset inputs in one page lifetime.
MaxSettings == 1
\* Consecutive Playing frames and resize events while the window is being
\* resized repeatedly (SpecView).
MaxViewFrames == 3
MaxViewResizes == 2
\* Consecutive Playing frames and slider inputs of a run whose settings were
\* chosen before the first press (SpecRun).
MaxRunFrames == 45
MaxRunIdleFrames == 1
MaxPresets == 4
\* Consecutive Playing frames of a run followed until a jump has landed
\* (SpecLive), and the latest frame of a run at which a jump is followed.
MaxLiveFrames == 50
MaxJumpStart == 2
\* The consecutive Playing frames and the resize events of a run in a window
\* that is made wider and narrower.
MaxWideFrames == 56
MaxWideResizes == 2
MaxWideRuns == 1
\* The AudioContexts constructed and the time (1/7 ms) let pass in the
\* music's specification.
MaxContexts == 2
MaxClock == 150000
MaxLoops == 6

\* ------------------------------------------------------- program constants
Centi == 100
ScoreUnit == 10000
CHAR_H == 96
CHAR_W == 83
CHAR_FOOT_OFF == 10
CHAR_X == 110
MAX_DT == 50
ANIM_FPS == 10
MAX_ANIM_FPS == 16
RUN_FRAME_COUNT == 6
FIRST_GAP_MS == 1400
SPAWN_MARGIN == 60
CULL_X == -60
GND_SPACING == 55
HIT_MARGIN == 4
HIT_LEFT == 12
HIT_TOP == 8
HIT_BOTTOM == 4
\* MUSIC_STEP = 60 / 140 / 2 s, the length of the melody, and the two
\* intervals of scheduleMusic (0.05 s and 0.4 s), in 1/7 ms.
MUSIC_STEP == 1500
MELODY_LENGTH == 32
FIRST_LOOP_LEAD == 350
RESCHEDULE_LEAD == 2800

Min(a, b) == IF a <= b THEN a ELSE b
Max(a, b) == IF a >= b THEN a ELSE b

\* --------------------------------------------------------- JS values
Null == <<"null">>
NaN == [nan |-> TRUE, v |-> 0]
\* The Number Infinity, where a countdown can hold it.
Infinity == <<"Infinity">>
Num(n) == [nan |-> FALSE, v |-> n]

Digits == <<"0", "1", "2", "3", "4", "5", "6", "7", "8", "9">>
IsDigit(c) == \E d \in 1..10 : Digits[d] = c
DigitVal(c) == (CHOOSE d \in 1..10 : Digits[d] = c) - 1

RECURSIVE NatToStr(_)
NatToStr(n) == IF n < 10 THEN <<Digits[n + 1]>>
               ELSE Append(NatToStr(n \div 10), Digits[(n % 10) + 1])

\* String(x) for a Number that is an integer or NaN.
ToStr(x) == IF x.nan THEN <<"N", "a", "N">>
            ELSE IF x.v < 0 THEN <<"-">> \o NatToStr(-x.v)
            ELSE NatToStr(x.v)

RECURSIVE ParseDigits(_, _, _)
ParseDigits(s, i, acc) ==
  IF i > Len(s) \/ ~IsDigit(s[i]) THEN [n |-> acc, next |-> i]
  ELSE ParseDigits(s, i + 1, acc * 10 + DigitVal(s[i]))

RECURSIVE SkipSpace(_, _)
SkipSpace(s, i) == IF i <= Len(s) /\ s[i] = " " THEN SkipSpace(s, i + 1) ELSE i

\* parseInt(s, 10): leading blanks, an optional sign, then the longest run of
\* digits; NaN when there is no digit.
ParseInt(s) ==
  LET i0 == SkipSpace(s, 1)
      neg == i0 <= Len(s) /\ s[i0] = "-"
      i1 == IF i0 <= Len(s) /\ s[i0] \in {"-", "+"} THEN i0 + 1 ELSE i0
      r == ParseDigits(s, i1, 0)
  IN IF r.next = i1 THEN NaN
     ELSE Num(IF neg THEN -r.n ELSE r.n)

\* localStorage.getItem('da_hi') || '0'
OrZero(item) == IF item = Null \/ item = <<>> THEN <<"0">> ELSE item

LoadHiScore(item) == ParseInt(OrZero(item))

\* Math.max(a, b) where a may be NaN and b is a number.
MathMax(a, b) == IF a.nan THEN NaN ELSE Num(Max(a.v, b))

\* ------------------------------------------------------- PhysicsConfig
\* PHYSICS_DEFAULTS: gravity 0.62, jumpForce -15, initSpeed 5, maxSpeed 22,
\* speedRate 0.014, minGap 420, maxGap 950.
PHYSICS_DEFAULTS ==
  [gravity |-> 62, jumpForce |-> -1500, initSpeed |-> 500, maxSpeed |-> 2200,
   speedRate |-> 14, minGap |-> 420, maxGap |-> 950]

\* The ranges of the settings sliders, in the units of the model.
SLIDER_GROUPS ==
  [gravity   |-> [min |-> 10,    max |-> 200],
   jumpForce |-> [min |-> -3000, max |-> -200],
   initSpeed |-> [min |-> 100,   max |-> 2000],
   maxSpeed  |-> [min |-> 500,   max |-> 5000],
   speedRate |-> [min |-> 1,     max |-> 50],
   minGap    |-> [min |-> 100,   max |-> 800],
   maxGap    |-> [min |-> 400,   max |-> 1600]]

\* Slider movements the user makes: <<key, value>>, each value inside the
\* slider's range and on its step grid.
SliderInputs ==
  { <<"maxSpeed", 500>>, <<"initSpeed", 100>>, <<"initSpeed", 2000>>,
    <<"gravity", 200>>, <<"jumpForce", -200>> }

\* Slider movements of a user who sets the game up before starting it.
PresetInputs ==
  { <<"initSpeed", 2000>>, <<"maxSpeed", 2000>>, <<"minGap", 500>>,
    <<"maxGap", 500>>, <<"gravity", 200>>, <<"jumpForce", -200>> }

\* PhysicsConfig values a collaborator can hand to the game, inside the
\* slider ranges and outside them: speeds of zero, minGap above maxGap.
GapConfigs ==
  { [PHYSICS_DEFAULTS EXCEPT !.initSpeed = i, !.maxSpeed = m,
                             !.minGap = a, !.maxGap = b] :
      i \in {0, 100, 500}, m \in {0, 500, 2200},
      a \in {100, 420, 800}, b \in {400, 950} }

\* A value the range input can deliver: inside [min, max] of its slider.
InRange(in) ==
  /\ SLIDER_GROUPS[in[1]].min <= in[2]
  /\ in[2] <= SLIDER_GROUPS[in[1]].max

\* Window sizes <<innerWidth, innerHeight>> the browser reports: the size at
\* page load and the sizes of later resize events.
InitViewport == <<100, 250>>
Viewports == { <<100, 248>>, <<120, 252>> }

\* Gaps ts - lastTs between two loop invocations, ms: a slow display and a
\* stalled tab (both clamp to 50 ms), and with them a fast display and a
\* repeated timestamp.
SlowGaps == { 50, 1000 }
AllGaps == { 0, 16, 50, 1000 }

\* Math.random() draws, in hundredths (always < 1).
RandomDraws == { 0, 50 }

\* Contents of the 'da_hi' key when the page loads.
InitStored == { Null, <<"7">>, <<"a", "b", "c">> }

\* ------------------------------------------------------- obstacles
OBSTACLE_DEFS ==
  <<[scale |-> 7, cols |-> 5, rows |-> 13],
    [scale |-> 8, cols |-> 5, rows |-> 7],
    [scale |-> 7, cols |-> 5, rows |-> 9]>>

getObstacleSize(type) ==
  LET d == OBSTACLE_DEFS[type + 1]
  IN [w |-> d.cols * d.scale, h |-> d.rows * d.scale]

\* Math.floor(canvas.height * GROUND_RATIO)
GroundY(height) == (height * 76) \div 100

\* const floor = g.gndY - CHAR_H + CHAR_FOOT_OFF
FloorY(groundY) == (groundY - CHAR_H + CHAR_FOOT_OFF) * Centi

\* Math.floor(g.score)
FloorScore(sc) == sc \div ScoreUnit

\* ------------------------------------------------------- state
VARIABLES
  phase,       \* g.phase
  uiPhase,     \* the component's phase state (setPhase)
  score,       \* g.score
  hiScore,     \* g.hiScore
  stored,      \* localStorage 'da_hi'
  speed,       \* g.speed
  t,           \* g.t
  charY,       \* g.char.y
  charVy,      \* g.char.vy
  grounded,    \* g.char.grounded
  frame,       \* g.char.frame
  frameTick,   \* g.char.frameTick
  obs,         \* g.obs
  nextGap,     \* g.nextGap
  gndOff, farOff, nearOff,
  w, h, gndY,  \* g.w, g.h, g.gndY (canvas.width / height equal g.w / g.h)
  stars,       \* g.stars: how many, and the field they were drawn in
  lastDisplayScore,
  physics,     \* the component's physics state (setPhysics)
  physicsRef,  \* physicsRef.current
  op,          \* the handler that ran last
  cfgRead,     \* the PhysicsConfig the last Playing frame of this run read
  nframes, nruns, nresizes, nsettings,
  far, near,   \* g.far, g.near: the two building layers
  writes,      \* how many times localStorage.setItem has been called
  music,       \* the component's music state (setMusic)
  musicSeen,   \* the value of music the music effect last ran with
  audioCtxRef, \* audioCtxRef.current: an index into ctxs, 0 for null
  musicTimerRef, \* musicTimerRef.current: an index into timers, 0 for null
  ctxs,        \* the AudioContexts constructed so far
  timers,      \* the setTimeout calls made so far
  loops,       \* the loops whose notes have been scheduled
  clock,       \* the time (1/7 ms)
  mounted      \* the component is mounted

\* The gameplay state: what only a Playing frame, a press or a retry may touch.
gameVars ==
  <<score, speed, t, charY, charVy, grounded, obs, nextGap,
    gndOff, farOff, nearOff, hiScore, stored>>

vars ==
  <<phase, uiPhase, score, hiScore, stored, speed, t, charY, charVy, grounded,
    frame, frameTick, obs, nextGap, gndOff, farOff, nearOff, w, h, gndY, stars,
    lastDisplayScore, physics, physicsRef, op, cfgRead,
    nframes, nruns, nresizes, nsettings, far, near, writes,
    music, musicSeen, audioCtxRef, musicTimerRef, ctxs, timers, loops, clock,
    mounted>>

\* The state of the music: what the game's handlers never touch.
musicVars ==
  <<music, musicSeen, audioCtxRef, musicTimerRef, ctxs, timers, loops, clock,
    mounted>>

NoCfg == [gravity |-> 0, jumpForce |-> 0, initSpeed |-> 0, maxSpeed |-> 0,
          speedRate |-> 0, minGap |-> 0, maxGap |-> 0]

genStars(width, groundY) == [n |-> 180, w |-> width, groundY |-> groundY]

\* The random draws of one genBuildings call, in percent: the width, the
\* height and the spacing draw, each taken alike for every building.
SceneryDraw == [bw |-> 50, bh |-> 50, gap |-> 50]

\* genBuildings(count, minW, maxW, minH, maxH): count buildings laid out from
\* x = 0, each followed by a gap of 3..12 px; totalW is the x after the last.
\* gen numbers the generations of one layer (0 for the first).
genBuildings(count, minW, maxW, minH, maxH, r) ==
  LET bw  == minW + (r.bw * (maxW - minW + 1)) \div 100
      bh  == minH + (r.bh * (maxH - minH + 1)) \div 100
      gap == 3 + (r.gap * 10) \div 100
  IN [count |-> count, bw |-> bw, bh |-> bh, gap |-> gap,
      totalW |-> count * (bw + gap), gen |-> 0]

\* InitialSpeed reading the wrong key.
InitialSpeedMax(cfg) == cfg.maxSpeed

\* speed: physicsRef.current.initSpeed
InitialSpeed(cfg) == cfg.initSpeed

\* makeState(): the fields of a fresh GameState, from the canvas size, the
\* stored high score and the current PhysicsConfig.
makeState(width, height, item, cfg) ==
  [w |-> width, h |-> height, gndY |-> GroundY(height),
   phase |-> "intro", score |-> 0, hiScore |-> LoadHiScore(item),
   speed |-> InitialSpeed(cfg), t |-> 0,
   y |-> FloorY(GroundY(height)), vy |-> 0, grounded |-> TRUE,
   frame |-> 0, frameTick |-> 0,
   obs |-> <<>>, nextGap |-> FIRST_GAP_MS * Centi,
   gndOff |-> 0, farOff |-> 0, nearOff |-> 0,
   stars |-> genStars(width, GroundY(height)),
   far |-> genBuildings(50, 30, 65, 45, 120, SceneryDraw),
   near |-> genBuildings(35, 55, 110, 80, 210, SceneryDraw),
   lastDisplayScore |-> -1]

\* A layer that replaces another without being generated anew.
ReplacesStale(old, new) == old

\* The layer a new GameState brings in place of the old one: the next
\* generation.
Replaces(old, new) == [new EXCEPT !.gen = old.gen + 1]

\* The music before the toggle is first used: off, nothing constructed.
MusicOff ==
  /\ music = FALSE
  /\ musicSeen = FALSE
  /\ audioCtxRef = 0
  /\ musicTimerRef = 0
  /\ ctxs = <<>>
  /\ timers = <<>>
  /\ loops = <<>>
  /\ clock = 0
  /\ mounted = TRUE

\* Installs a constructed GameState, with phase and hiScore as given.
Install(g, ph, hi) ==
  /\ phase' = ph
  /\ hiScore' = hi
  /\ score' = g.score
  /\ speed' = g.speed
  /\ t' = g.t
  /\ charY' = g.y
  /\ charVy' = g.vy
  /\ grounded' = g.grounded
  /\ frame' = g.frame
  /\ frameTick' = g.frameTick
  /\ obs' = g.obs
  /\ nextGap' = g.nextGap
  /\ gndOff' = g.gndOff
  /\ farOff' = g.farOff
  /\ nearOff' = g.nearOff
  /\ w' = g.w
  /\ h' = g.h
  /\ gndY' = g.gndY
  /\ stars' = g.stars
  /\ far' = Replaces(far, g.far)
  /\ near' = Replaces(near, g.near)
  /\ lastDisplayScore' = g.lastDisplayScore

\* The mount effect: resize(), then gRef.current = makeState().
Init ==
  /\ stored \in InitStored
  /\ physics = PHYSICS_DEFAULTS
  /\ physicsRef = PHYSICS_DEFAULTS
  /\ \E vp \in {InitViewport} :
       LET g == makeState(vp[1], vp[2], stored, PHYSICS_DEFAULTS)
       IN /\ phase = g.phase
          /\ hiScore = g.hiScore
          /\ score = g.score
          /\ speed = g.speed
          /\ t = g.t
          /\ charY = g.y
          /\ charVy = g.vy
          /\ grounded = g.grounded
          /\ frame = g.frame
          /\ frameTick = g.frameTick
          /\ obs = g.obs
          /\ nextGap = g.nextGap
          /\ gndOff = g.gndOff
          /\ farOff = g.farOff
          /\ nearOff = g.nearOff
          /\ w = g.w
          /\ h = g.h
          /\ gndY = g.gndY
          /\ stars = g.stars
          /\ far = g.far
          /\ near = g.near
          /\ lastDisplayScore = g.lastDisplayScore
  /\ writes = 0
  /\ MusicOff
  /\ uiPhase = "intro"
  /\ op = "mount"
  /\ cfgRead = NoCfg
  /\ nframes = 0
  /\ nruns = 1
  /\ nresizes = 0
  /\ nsettings = 0

\* ------------------------------------------------------- the frame
\* The update gated on the wrong test: it also runs before the first press.
PlayingUnlessGameOver(ph) == ph # "gameover"

\* const playing = g.phase === 'playing'
Playing(ph) == ph = "playing"

\* ClampDt without the clamp: the whole gap is one step.
ClampDtNone(gap) == gap

\* const dt = Math.min(ts - lastTs, 50)
ClampDt(gap) == Min(gap, MAX_DT)

\* animFps, in 1/100 frames per second.
AnimFps(playing, spd, cfg) ==
  IF playing
    THEN Min(MAX_ANIM_FPS * Centi, (ANIM_FPS * Centi * spd) \div cfg.initSpeed)
    ELSE ANIM_FPS * Centi

\* 1000 / animFps, in 1/100 ms.
AnimPeriod(fps) == (1000 * Centi * Centi) \div fps

\* NextScore without the factor 0.1.
NextScoreTenfold(sc, spd, dt) == sc + (spd * dt * 9) \div 10

\* g.score += g.speed * dt * SCORE_RATE * 0.1   (SCORE_RATE = 0.009)
NextScore(sc, spd, dt) == sc + (spd * dt * 9) \div 100

\* NextSpeed with the sign of the growth term slipped.
NextSpeedSignSlip(sc, cfg) ==
  Min(cfg.maxSpeed, cfg.initSpeed - (sc * cfg.speedRate) \div 100000)

\* g.speed = Math.min(maxSpeed, initSpeed + g.score * speedRate)
NextSpeed(sc, cfg) ==
  Min(cfg.maxSpeed, cfg.initSpeed + (sc * cfg.speedRate) \div 100000)

\* Integrate with a clamp that stops the fall but leaves the flag as it was.
IntegrateKeepsFlag(y, vy, gr, gravity, floor) ==
  LET vy1 == vy + gravity
      y1 == y + vy1
  IN IF y1 >= floor
       THEN [y |-> floor, vy |-> 0, grounded |-> gr]
       ELSE [y |-> y1, vy |-> vy1, grounded |-> gr]

\* Integrate with a clamp that tests the position before the step.
IntegrateLateClamp(y, vy, gr, gravity, floor) ==
  LET vy1 == vy + gravity
      y1 == y + vy1
  IN IF y >= floor
       THEN [y |-> floor, vy |-> 0, grounded |-> TRUE]
       ELSE [y |-> y1, vy |-> vy1, grounded |-> gr]

\* ch.vy += gravity; ch.y += ch.vy; the clamp to the floor.
Integrate(y, vy, gr, gravity, floor) ==
  LET vy1 == vy + gravity
      y1 == y + vy1
  IN IF y1 >= floor
       THEN [y |-> floor, vy |-> 0, grounded |-> TRUE]
       ELSE [y |-> y1, vy |-> vy1, grounded |-> gr]

\* SpawnGap converting frames to time at 20 ms per frame.
SpawnGapAt50Hz(cfg, r, spd) ==
  LET px == cfg.minGap * Centi + r * (cfg.maxGap - cfg.minGap)
  IN (px * 2000) \div spd

\* const px = minGap + Math.random() * (maxGap - minGap);
\* g.nextGap = (px / g.speed) * (1000 / 60)
\* (px is positive for every gap setting, so px / 0 is Infinity.)
SpawnGap(cfg, r, spd) ==
  LET px == cfg.minGap * Centi + r * (cfg.maxGap - cfg.minGap)
  IN IF spd = 0 THEN Infinity ELSE (px * 5000) \div (spd * 3)

\* NewObstacle putting the obstacle on the right edge, the margin left out.
NewObstacleAtEdge(width, type) ==
  LET sz == getObstacleSize(type)
  IN [x |-> width * Centi, type |-> type, w |-> sz.w, h |-> sz.h]

\* g.obs.push({ x: g.w + 60, type, ...sz })
NewObstacle(width, type) ==
  LET sz == getObstacleSize(type)
  IN [x |-> (width + SPAWN_MARGIN) * Centi, type |-> type, w |-> sz.w, h |-> sz.h]

\* g.obs.forEach(o => { o.x -= g.speed; })
MoveAll(os, spd) == [i \in 1..Len(os) |-> [os[i] EXCEPT !.x = @ - spd]]

\* Alive with the edge of the viewport as the threshold.
AliveOnScreen(o) == o.x + o.w * Centi > 0

\* g.obs.filter(o => o.x + o.w > -60)
Alive(o) == o.x + o.w * Centi > CULL_X * Centi
Cull(os) == SelectSeq(os, Alive)

\* Hit with the edges compared as they are, the 4 px margin forgotten.
HitNoMargin(o, y, groundY) ==
  LET cLeft   == (CHAR_X + HIT_LEFT) * Centi
      cRight  == (CHAR_X + CHAR_W - HIT_LEFT) * Centi
      cTop    == y + HIT_TOP * Centi
      cBottom == y + (CHAR_H - HIT_BOTTOM) * Centi
      oTop    == (groundY - o.h) * Centi
  IN /\ cRight > o.x
     /\ cLeft < o.x + o.w * Centi
     /\ cBottom > oTop
     /\ cTop < groundY * Centi

\* The overlap test of the collision loop, for one obstacle.
Hit(o, y, groundY) ==
  LET cLeft   == (CHAR_X + HIT_LEFT) * Centi
      cRight  == (CHAR_X + CHAR_W - HIT_LEFT) * Centi
      cTop    == y + HIT_TOP * Centi
      cBottom == y + (CHAR_H - HIT_BOTTOM) * Centi
      oTop    == (groundY - o.h) * Centi
  IN /\ cRight > o.x + HIT_MARGIN * Centi
     /\ cLeft < o.x + (o.w - HIT_MARGIN) * Centi
     /\ cBottom > oTop + HIT_MARGIN * Centi
     /\ cTop < groundY * Centi

\* Collides with the overlap test dropped: any obstacle on screen ends the run.
CollidesAnyObstacle(os, y, groundY) == Len(os) > 0

\* for (const o of g.obs) { if (overlap) { ...; break; } }
Collides(os, y, groundY) == \E i \in 1..Len(os) : Hit(os[i], y, groundY)

\* NewHi without the Math.max: the score of the run that just ended.
NewHiLastScore(hi, sc) == Num(FloorScore(sc))

\* NewHi with the floor taken of the wrong quantity: the high score in
\* score units instead of points.
NewHiUnfloored(hi, sc) == MathMax(hi, sc)

\* const newHi = Math.max(g.hiScore, Math.floor(g.score))
NewHi(hi, sc) == MathMax(hi, FloorScore(sc))

\* The run animation at the top of the update.
Animate(dt) ==
  LET period == AnimPeriod(AnimFps(Playing(phase), speed, physicsRef))
      tick == frameTick + dt * Centi
  IN IF tick > period
       THEN /\ frame' = IF phase # "gameover"
                          THEN (frame + 1) % RUN_FRAME_COUNT ELSE frame
            /\ frameTick' = tick - period
       ELSE /\ frame' = frame
            /\ frameTick' = tick

\* CurrentConfig with the values the mount effect saw.
ConfigAtSetup == PHYSICS_DEFAULTS

\* physicsRef.current, read where it is used.
CurrentConfig == physicsRef

\* The high score saved by every Playing frame, collision or not.
SetItemCallsEveryFrame(os, y, groundY) == 1

\* The localStorage.setItem calls of the collision loop: one, made for the
\* first obstacle found overlapping, after which the loop is left (break).
SetItemCalls(os, y, groundY) == IF Collides(os, y, groundY) THEN 1 ELSE 0

\* if (playing) { ... }: everything between the animation and the render.
Update(dt, rType, rGap) ==
  LET cfg    == CurrentConfig
      score1 == NextScore(score, speed, dt)
      speed1 == NextSpeed(score1, cfg)
      ch     == Integrate(charY, charVy, grounded, cfg.gravity, FloorY(gndY))
      gap1   == nextGap - dt * Centi
      spawn  == gap1 <= 0
      obs1   == IF spawn THEN Append(obs, NewObstacle(w, rType)) ELSE obs
      obs2   == Cull(MoveAll(obs1, speed1))
      hit    == Collides(obs2, ch.y, gndY)
      newHi  == NewHi(hiScore, score1)
  IN /\ t' = t + dt
     /\ score' = score1
     /\ speed' = speed1
     /\ gndOff' = (gndOff + speed1) % (GND_SPACING * Centi)
     /\ farOff' = farOff + speed1 * 12
     /\ nearOff' = nearOff + speed1 * 38
     /\ charY' = ch.y
     /\ charVy' = ch.vy
     /\ grounded' = ch.grounded
     /\ nextGap' = IF spawn THEN SpawnGap(cfg, rGap, speed1) ELSE gap1
     /\ obs' = obs2
     /\ IF hit
          THEN /\ phase' = "gameover"
               /\ hiScore' = newHi
               /\ stored' = ToStr(newHi)
               /\ uiPhase' = "gameover"
          ELSE UNCHANGED <<phase, hiScore, stored, uiPhase>>
     /\ writes' = writes + SetItemCalls(obs2, ch.y, gndY)
     /\ lastDisplayScore' = FloorScore(score1)
     /\ cfgRead' = cfg

\* The random draws a frame makes: none unless it spawns (the draws of a
\* frame that does not spawn are never made, so one value stands for them).
SpawnDraws(dt, draws) ==
  IF nextGap - dt * Centi <= 0 THEN draws ELSE {CHOOSE d \in draws : TRUE}

\* loop(ts): one invocation of the animation-frame callback. limit bounds
\* the consecutive Playing frames, idle the consecutive frames of the other
\* phases, gaps are the timestamp gaps offered.
FrameStep(limit, idle, gaps) ==
  /\ nframes < (IF Playing(phase) THEN limit ELSE idle)
  /\ \E gap \in gaps :
       LET dt == ClampDt(gap)
       IN /\ Animate(dt)
          /\ IF Playing(phase)
               THEN \E rType \in SpawnDraws(dt, 0..2), rGap \in SpawnDraws(dt, RandomDraws) :
                      Update(dt, rType, rGap)
               ELSE UNCHANGED <<phase, uiPhase, score, hiScore, stored, writes,
                                speed, t, charY, charVy, grounded, obs, nextGap,
                                gndOff, farOff, nearOff, lastDisplayScore,
                                cfgRead>>
  /\ nframes' = IF phase' = phase THEN nframes + 1 ELSE 0
  /\ op' = "frame"
  /\ UNCHANGED <<w, h, gndY, stars, far, near, physics, physicsRef,
                 nruns, nresizes, nsettings, musicVars>>

Frame == FrameStep(MaxFrames, MaxIdleFrames, SlowGaps)

\* ------------------------------------------------------- the render
\* Math.abs(Math.sin(x)), x in 1/100 rad and the result in 1/1000, by
\* Bhaskara's rational approximation of the sine on [0, pi].
AbsSin(x) ==
  LET p == 314
      r == x % p
  IN (16000 * r * (p - r)) \div (5 * p * p - 4 * r * (p - r))

\* drawLayer(ctx, layer, offset, groundY, alpha): the buildings it fills, as
\* the x (1/10000 px) and the width (px) of each; width is ctx.canvas.width,
\* offset is in 1/10000 px. Four repetitions of the layer, rep = -1..2, less
\* the buildings more than 200 px outside the canvas; none for totalW = 0.
drawLayer(layer, offset, width) ==
  IF layer.totalW = 0
    THEN {}
    ELSE LET U  == 10000
             at(i, k) == i * (layer.bw + layer.gap) * U
                           - (offset % (layer.totalW * U)) + k * layer.totalW * U
         IN { [bx |-> at(i, k), bw |-> layer.bw] :
                <<i, k>> \in { c \in (0..(layer.count - 1)) \X (-1..2) :
                                 ~ \/ at(c[1], c[2]) > (width + 200) * U
                                   \/ at(c[1], c[2]) + layer.bw * U < -200 * U } }

\* An overlay that shows its intro block whenever the phase is not GameOver.
OverlayUnlessGameOver(ph) ==
  IF ph = "gameover" THEN {"gameover"} ELSE {"intro"}

\* Overlay({ phase }): the blocks it renders -- none unless the phase is
\* 'intro' or 'gameover', and then the block of that phase.
Overlay(ph) ==
  IF ph # "intro" /\ ph # "gameover"
    THEN {}
    ELSE { b \in {"intro", "gameover"} : b = ph }

\* ctx.globalAlpha under which the character's sprite is drawn (1/1000):
\* 0.5 + 0.5 * |sin(g.t * 0.007)| in GameOver, 1 otherwise.
CharAlpha(ph, time) ==
  IF ph = "gameover" THEN 500 + (500 * AbsSin((7 * time) \div 10)) \div 1000 ELSE 1000

TuneFrame == FrameStep(MaxTuneFrames, MaxIdleFrames, AllGaps)

\* ------------------------------------------------------- input
\* JumpAllowed without the test: every press jumps.
JumpAlways(gr) == TRUE

\* if (g.char.grounded): the jump is taken only from the ground.
JumpAllowed(gr) == gr

\* doAction(): start, jump or retry, by phase.
DoAction ==
  /\ op' = "action"
  /\ IF phase = "intro"
       THEN /\ phase' = "playing"
            /\ uiPhase' = "playing"
            /\ nframes' = 0
            /\ UNCHANGED <<score, hiScore, stored, speed, t, charY, charVy, grounded,
                           frame, frameTick, obs, nextGap, gndOff, farOff, nearOff,
                           w, h, gndY, stars, far, near, lastDisplayScore,
                           cfgRead, nruns>>
     ELSE IF phase = "playing"
       THEN /\ IF JumpAllowed(grounded)
                 THEN /\ charVy' = CurrentConfig.jumpForce
                      /\ grounded' = FALSE
                 ELSE UNCHANGED <<charVy, grounded>>
            /\ UNCHANGED <<phase, uiPhase, score, hiScore, stored, speed, t, charY,
                           frame, frameTick, obs, nextGap, gndOff, farOff, nearOff,
                           w, h, gndY, stars, far, near, lastDisplayScore,
                           cfgRead, nframes, nruns>>
     ELSE /\ nruns < MaxRuns
          /\ Install(makeState(w, h, stored, physicsRef), "playing", hiScore)
          /\ uiPhase' = "playing"
          /\ cfgRead' = NoCfg
          /\ nframes' = 0
          /\ nruns' = nruns + 1
          /\ UNCHANGED stored
  /\ UNCHANGED <<physics, physicsRef, nresizes, nsettings, writes, musicVars>>

\* RegenStars keeping the old field and adding the new one to it.
RegenStarsAppend(old, width, groundY) ==
  [genStars(width, groundY) EXCEPT !.n = old.n + @]

\* g.stars = genStars(g.w, g.gndY): the old field is replaced.
RegenStars(old, width, groundY) == genStars(width, groundY)

\* resize(): the canvas takes the window size; gndY and the stars follow.
\* limit bounds the resize events, views are the window sizes offered; op
\* records whether the event brought the size the canvas already had.
ResizeStep(limit, views) ==
  /\ nresizes < limit
  /\ \E vp \in views :
       /\ w' = vp[1]
       /\ h' = vp[2]
       /\ gndY' = GroundY(vp[2])
       /\ stars' = RegenStars(stars, vp[1], GroundY(vp[2]))
       /\ op' = IF <<w, h>> = vp THEN "resizeSame" ELSE "resize"
  /\ nresizes' = nresizes + 1
  /\ UNCHANGED <<far, near, writes, musicVars,
                 phase, uiPhase, score, hiScore, stored, speed, t, charY, charVy,
                 grounded, frame, frameTick, obs, nextGap, gndOff, farOff, nearOff,
                 lastDisplayScore, physics, physicsRef, cfgRead,
                 nframes, nruns, nsettings>>

Resize == ResizeStep(MaxResizes, Viewports)

ViewFrame == FrameStep(MaxViewFrames, MaxIdleFrames, SlowGaps)

ViewResize == ResizeStep(MaxViewResizes, Viewports)

\* ------------------------------------------------------- settings
\* onInput of a slider: setPhysics(p => ({ ...p, [key]: parse(value) })); the
\* event fires when the slider's value has changed.
\* limit bounds the inputs of a page lifetime, inputs are the movements
\* offered.
SetPhysicsFrom(limit, inputs) ==
  /\ nsettings < limit
  /\ \E in \in { i \in inputs : InRange(i) /\ physics[i[1]] # i[2] } :
       physics' = [physics EXCEPT ![in[1]] = in[2]]
  /\ nsettings' = nsettings + 1
  /\ op' = "setPhysics"
  /\ UNCHANGED <<far, near, writes, musicVars,
                 phase, uiPhase, score, hiScore, stored, speed, t, charY, charVy,
                 grounded, frame, frameTick, obs, nextGap, gndOff, farOff, nearOff,
                 w, h, gndY, stars, lastDisplayScore, physicsRef, cfgRead,
                 nframes, nruns, nresizes>>

SetPhysics == SetPhysicsFrom(MaxSettings, SliderInputs)

\* A slider moved while the game waits for its first press, and the effect
\* that follows its render: physicsRef.current = physics.
Preset ==
  /\ phase = "intro"
  /\ nsettings < MaxPresets
  /\ \E in \in { i \in PresetInputs : InRange(i) /\ physics[i[1]] # i[2] } :
       /\ physics' = [physics EXCEPT ![in[1]] = in[2]]
       /\ physicsRef' = physics'
  /\ nsettings' = nsettings + 1
  /\ op' = "commit"
  /\ UNCHANGED <<far, near, writes, musicVars,
                 phase, uiPhase, score, hiScore, stored, speed, t, charY, charVy,
                 grounded, frame, frameTick, obs, nextGap, gndOff, farOff, nearOff,
                 w, h, gndY, stars, lastDisplayScore, cfgRead,
                 nframes, nruns, nresizes>>

LiveFrame == FrameStep(MaxLiveFrames, MaxIdleFrames, SlowGaps)

RunFrame == FrameStep(MaxRunFrames, MaxRunIdleFrames, SlowGaps)

\* RESET DEFAULTS: setPhysics(PHYSICS_DEFAULTS).
ResetPhysics ==
  /\ nsettings < MaxSettings
  /\ physics' = PHYSICS_DEFAULTS
  /\ nsettings' = nsettings + 1
  /\ op' = "setPhysics"
  /\ UNCHANGED <<far, near, writes, musicVars,
                 phase, uiPhase, score, hiScore, stored, speed, t, charY, charVy,
                 grounded, frame, frameTick, obs, nextGap, gndOff, farOff, nearOff,
                 w, h, gndY, stars, lastDisplayScore, physicsRef, cfgRead,
                 nframes, nruns, nresizes>>

\* useEffect(() => { physicsRef.current = physics; }, [physics]): the effect
\* runs after the render is painted, so a loop callback that was already
\* requested can run between the slider event and this step.
CommitPhysics ==
  /\ physicsRef # physics
  /\ physicsRef' = physics
  /\ op' = "commit"
  /\ UNCHANGED <<far, near, writes, musicVars,
                 phase, uiPhase, score, hiScore, stored, speed, t, charY, charVy,
                 grounded, frame, frameTick, obs, nextGap, gndOff, farOff, nearOff,
                 w, h, gndY, stars, lastDisplayScore, physics, cfgRead,
                 nframes, nruns, nresizes, nsettings>>

\* A page lifetime in which the settings panel stays closed.
Next ==
  \/ Frame
  \/ DoAction
  \/ Resize

Spec == Init /\ [][Next]_vars

\* The first frames of a page lifetime with the settings panel in use.
NextTune ==
  \/ TuneFrame
  \/ DoAction
  \/ Resize
  \/ SetPhysics
  \/ ResetPhysics
  \/ CommitPhysics

InitTune == Init /\ stored = Null

SpecTune == InitTune /\ [][NextTune]_vars

\* The first frames of a page lifetime in a window that is resized again
\* and again.
NextView ==
  \/ ViewFrame
  \/ DoAction
  \/ ViewResize

SpecView == InitTune /\ [][NextView]_vars

\* A page lifetime in which the sliders are set before the first press and
\* the run goes on past the first obstacles.
NextRun ==
  \/ RunFrame
  \/ DoAction
  \/ Preset

SpecRun == InitTune /\ [][NextRun]_vars

\* A page lifetime in which the frames keep arriving: every loop invocation
\* requests the next one.
NextLive ==
  \/ LiveFrame
  \/ DoAction

SpecLive == InitTune /\ [][NextLive]_vars /\ WF_vars(LiveFrame)

\* A run in a window that is widened and narrowed again, long enough for two
\* obstacles to be on the field together.
WideViewports == { <<400, 250>>, <<250, 250>> }

WideFrame ==
  /\ nruns <= MaxWideRuns
  /\ FrameStep(MaxWideFrames, MaxRunIdleFrames, SlowGaps)

WideResize == ResizeStep(MaxWideResizes, WideViewports)

NextWide == WideFrame \/ DoAction \/ WideResize

SpecWide == InitTune /\ [][NextWide]_vars

\* The layer renderer on its own: a Playing game with layers of the extreme
\* and the middle random draws (and one of no buildings), at some scroll
\* offsets (1/10000 px) and canvas widths (px).
LayerDraws ==
  { [bw |-> 0, bh |-> 0, gap |-> 0], SceneryDraw, [bw |-> 99, bh |-> 99, gap |-> 99] }

LayerOffsets == {0, 15000000, 1000000000}

LayerWidths == {1920, 3840, 7680}

InitLayer ==
  /\ stored = Null
  /\ physics = PHYSICS_DEFAULTS
  /\ physicsRef = physics
  /\ w \in LayerWidths
  /\ far \in { genBuildings(50, 30, 65, 45, 120, r) : r \in LayerDraws }
              \cup { genBuildings(0, 30, 65, 45, 120, SceneryDraw) }
  /\ near \in { genBuildings(35, 55, 110, 80, 210, r) : r \in LayerDraws }
  /\ farOff \in LayerOffsets
  /\ nearOff = farOff
  /\ LET g == makeState(w, InitViewport[2], stored, physics)
     IN /\ hiScore = g.hiScore
        /\ score = g.score
        /\ speed = g.speed
        /\ t = g.t
        /\ charY = g.y
        /\ charVy = g.vy
        /\ grounded = g.grounded
        /\ frame = g.frame
        /\ frameTick = g.frameTick
        /\ obs = g.obs
        /\ nextGap = g.nextGap
        /\ gndOff = g.gndOff
        /\ h = g.h
        /\ gndY = g.gndY
        /\ stars = g.stars
        /\ lastDisplayScore = g.lastDisplayScore
  /\ writes = 0
  /\ MusicOff
  /\ phase = "playing"
  /\ uiPhase = "playing"
  /\ op = "mount"
  /\ cfgRead = NoCfg
  /\ nframes = 0
  /\ nruns = 1
  /\ nresizes = 0
  /\ nsettings = 0

\* The two drawLayer calls of a frame's render.
DrawStep ==
  /\ op = "mount"
  /\ drawLayer(far, farOff, w) \subseteq [bx : Int, bw : Nat]
  /\ drawLayer(near, nearOff, w) \subseteq [bx : Int, bw : Nat]
  /\ op' = "draw"
  /\ UNCHANGED <<far, near, writes, musicVars,
                 phase, uiPhase, score, hiScore, stored, speed, t, charY, charVy,
                 grounded, frame, frameTick, obs, nextGap, gndOff, farOff, nearOff,
                 w, h, gndY, stars, lastDisplayScore, physics, physicsRef,
                 cfgRead, nframes, nruns, nresizes, nsettings>>

NextLayer == DrawStep

SpecLayer == InitLayer /\ [][NextLayer]_vars

\* ------------------------------------------------------- the music
\* Everything but the state of the music.
sceneVars ==
  <<phase, uiPhase, score, hiScore, stored, speed, t, charY, charVy, grounded,
    frame, frameTick, obs, nextGap, gndOff, farOff, nearOff, w, h, gndY, stars,
    lastDisplayScore, physics, physicsRef, op, cfgRead,
    nframes, nruns, nresizes, nsettings, far, near, writes>>

\* clearTimeout(id): a pending timer is cancelled; any other id, and null,
\* is ignored.
clearTimeout(ts, id) ==
  IF id \in 1..Len(ts) /\ ts[id].state = "pending"
    THEN [ts EXCEPT ![id].state = "cleared"]
    ELSE ts

\* ctx.close(), ctx given by its index (0: the optional call on null, not
\* made): the context is closed, and the call counted.
close(cs, c) ==
  IF c = 0 THEN cs ELSE [cs EXCEPT ![c].state = "closed", ![c].closes = @ + 1]

\* ctx.currentTime
CurrentTime(cs, c, now) == now - cs[c].born

\* dur = MUSIC_MELODY.length * MUSIC_STEP
LoopDur == MELODY_LENGTH * MUSIC_STEP

\* The timer set without the 0.4 s lead: at the very end of the loop.
RescheduleDelayAtEnd(start, cur) == Max(0, start + LoopDur - cur)

\* Math.max(0, ms), ms = (t + dur - 0.4 - ctx.currentTime) * 1000
RescheduleDelay(start, cur) == Max(0, start + LoopDur - RESCHEDULE_LEAD - cur)

\* scheduleMusic(ctx, timerRef, loopStart), loopStart <<>> when not given:
\* the notes of one loop are scheduled from t, and the timer that is to
\* schedule the next loop, from t + dur, is set and kept in timerRef.
\* cs, ts, ls are the contexts, timers and loops before the call.
scheduleMusic(cs, ts, ls, c, loopStart, now) ==
  LET cur   == CurrentTime(cs, c, now)
      start == IF loopStart = <<>> THEN cur + FIRST_LOOP_LEAD ELSE loopStart[1]
      delay == RescheduleDelay(start, cur)
  IN [loops  |-> Append(ls, [ctx |-> c, start |-> start, at |-> cur]),
      timers |-> Append(ts, [ctx |-> c, next |-> start + LoopDur, set |-> now,
                             delay |-> delay, state |-> "pending"]),
      ref    |-> Len(ts) + 1]

\* onClick={() => setMusic(opt === 'ON')}: a click on the option that is not
\* the current one.
SetMusic ==
  /\ mounted
  /\ ~music => Len(ctxs) + (IF musicSeen THEN 0 ELSE 1) <= MaxContexts
  /\ music' = ~music
  /\ UNCHANGED <<musicSeen, audioCtxRef, musicTimerRef, ctxs, timers, loops,
                 clock, mounted, sceneVars>>

\* The cleanup the music effect returned when it last ran with music on:
\* clearTimeout(musicTimerRef.current); ctx.close(). It returned none when
\* it ran with music off.
MusicCleanup ==
  IF musicSeen
    THEN [timers |-> clearTimeout(timers, musicTimerRef),
          ctxs   |-> close(ctxs, audioCtxRef)]
    ELSE [timers |-> timers, ctxs |-> ctxs]

\* useEffect(..., [music]) after a render in which music has changed: the
\* last cleanup, then the effect.
MusicEffect ==
  /\ mounted
  /\ music # musicSeen
  /\ LET clean == MusicCleanup
     IN IF ~music
          THEN /\ timers' = clearTimeout(clean.timers, musicTimerRef)
               /\ ctxs' = close(clean.ctxs, audioCtxRef)
               /\ audioCtxRef' = 0
               /\ UNCHANGED <<musicTimerRef, loops>>
          ELSE LET cs == Append(clean.ctxs,
                                [state |-> "running", closes |-> 0, born |-> clock])
                   c  == Len(cs)
                   m  == scheduleMusic(cs, clean.timers, loops, c, <<>>, clock)
               IN /\ ctxs' = cs
                  /\ audioCtxRef' = c
                  /\ timers' = m.timers
                  /\ loops' = m.loops
                  /\ musicTimerRef' = m.ref
  /\ musicSeen' = music
  /\ UNCHANGED <<music, clock, mounted, sceneVars>>

\* The callback of a timer that has come due:
\* if (ctx.state === 'running') scheduleMusic(ctx, timerRef, t + dur).
TimerFire ==
  \E id \in 1..Len(timers) :
    /\ timers[id].state = "pending"
    /\ clock >= timers[id].set + timers[id].delay
    /\ LET fired == [timers EXCEPT ![id].state = "fired"]
           c     == timers[id].ctx
       IN IF ctxs[c].state = "running"
            THEN LET m == scheduleMusic(ctxs, fired, loops, c,
                                        <<timers[id].next>>, clock)
                 IN /\ timers' = m.timers
                    /\ loops' = m.loops
                    /\ musicTimerRef' = m.ref
            ELSE /\ timers' = fired
                 /\ UNCHANGED <<loops, musicTimerRef>>
    /\ UNCHANGED <<music, musicSeen, audioCtxRef, ctxs, clock, mounted, sceneVars>>

\* The times let pass at once (1/7 ms): up to the first timer, one loop,
\* two loops.
ElapseSteps == {45550, 48000, 96000}

\* Time passes.
Elapse ==
  /\ clock < MaxClock
  /\ \E d \in ElapseSteps : clock' = Min(clock + d, MaxClock)
  /\ UNCHANGED <<music, musicSeen, audioCtxRef, musicTimerRef, ctxs, timers,
                 loops, mounted, sceneVars>>

\* The component is torn down: the last cleanup of the music effect runs.
Unmount ==
  /\ mounted
  /\ mounted' = FALSE
  /\ timers' = MusicCleanup.timers
  /\ ctxs' = MusicCleanup.ctxs
  /\ UNCHANGED <<music, musicSeen, audioCtxRef, musicTimerRef, loops, clock,
                 sceneVars>>

NextMusic == SetMusic \/ MusicEffect \/ TimerFire \/ Elapse \/ Unmount

\* Timers that are due fire, and time passes.
SpecMusic ==
  InitTune /\ [][NextMusic]_vars /\ WF_vars(TimerFire) /\ WF_vars(Elapse)

\* The spawn-interval computation on its own: a Playing game about to spawn
\* under one of GapConfigs.
InitGap ==
  /\ stored = Null
  /\ physics \in GapConfigs
  /\ physicsRef = physics
  /\ LET g == makeState(InitViewport[1], InitViewport[2], stored, physics)
     IN /\ hiScore = g.hiScore
        /\ score = g.score
        /\ speed = g.speed
        /\ t = g.t
        /\ charY = g.y
        /\ charVy = g.vy
        /\ grounded = g.grounded
        /\ frame = g.frame
        /\ frameTick = g.frameTick
        /\ obs = g.obs
        /\ nextGap = g.nextGap
        /\ gndOff = g.gndOff
        /\ farOff = g.farOff
        /\ nearOff = g.nearOff
        /\ w = g.w
        /\ h = g.h
        /\ gndY = g.gndY
        /\ stars = g.stars
        /\ far = g.far
        /\ near = g.near
        /\ lastDisplayScore = g.lastDisplayScore
  /\ writes = 0
  /\ MusicOff
  /\ phase = "playing"
  /\ uiPhase = "playing"
  /\ op = "mount"
  /\ cfgRead = NoCfg
  /\ nframes = 0
  /\ nruns = 1
  /\ nresizes = 0
  /\ nsettings = 0

\* The speed and the countdown a spawning frame computes.
SpawnStep ==
  /\ op = "mount"
  /\ \E rGap \in RandomDraws :
       /\ speed' = NextSpeed(score, CurrentConfig)
       /\ nextGap' = SpawnGap(CurrentConfig, rGap, speed')
  /\ op' = "spawn"
  /\ UNCHANGED <<far, near, writes, musicVars,
                 phase, uiPhase, score, hiScore, stored, t, charY, charVy,
                 grounded, frame, frameTick, obs, gndOff, farOff, nearOff,
                 w, h, gndY, stars, lastDisplayScore, physics, physicsRef,
                 cfgRead, nframes, nruns, nresizes, nsettings>>

NextGapStep == SpawnStep

SpecGap == InitGap /\ [][NextGapStep]_vars

\* ======================================================= claims
IsFrame == op' = "frame"
IsAction == op' = "action"
IsResize == op' \in {"resize", "resizeSame"}

\* Some obstacle of the list after the frame overlaps the character's hit-box
\* after the frame.
OverlapAfter == \E i \in 1..Len(obs') : Hit(obs'[i], charY', gndY')

\* C1: the phase changes only Intro -> Playing on an action press,
\* Playing -> GameOver in a frame that finds an overlapping obstacle, and
\* GameOver -> Playing on an action press; Intro is never re-entered, a press
\* in Playing and a resize never change the phase.
C1_PhaseTransitions ==
  [][phase' # phase =>
       \/ phase = "intro" /\ phase' = "playing" /\ IsAction
       \/ phase = "playing" /\ phase' = "gameover" /\ IsFrame /\ OverlapAfter
       \/ phase = "gameover" /\ phase' = "playing" /\ IsAction]_vars

\* A second run has ended: the whole cycle was travelled, retry included.
C1_Witness == nruns = 2 /\ phase = "gameover"

\* max(previous hiScore, floor(score)) as the claim states it; a high score
\* that is not a number stays so.
MaxOfHiAndScore(prev, sc) ==
  IF prev.nan THEN NaN
  ELSE IF prev.v >= sc \div ScoreUnit THEN prev ELSE Num(sc \div ScoreUnit)

\* C2: a Playing frame that finds an obstacle overlapping the hit-box sets,
\* in that frame, phase to GameOver, hiScore to max(previous hiScore,
\* floor(score)) and the stored value to that new hiScore.
C2_CollisionCommit ==
  [][(IsFrame /\ phase = "playing" /\ OverlapAfter) =>
       /\ phase' = "gameover"
       /\ hiScore' = MaxOfHiAndScore(hiScore, score')
       /\ stored' = ToStr(hiScore')]_vars

\* A collision has just committed and stored a new, higher high score.
C2_Witness ==
  /\ op = "frame"
  /\ phase = "gameover"
  /\ ~hiScore.nan
  /\ hiScore.v = FloorScore(score)
  /\ hiScore.v > 0
  /\ stored = NatToStr(hiScore.v)

\* C3: hiScore never decreases in a page lifetime, whatever each run scores
\* and across retries (a high score that is not a number stays as it is).
C3_HiScoreMonotone ==
  [][\/ hiScore.nan /\ hiScore'.nan
     \/ ~hiScore.nan /\ ~hiScore'.nan /\ hiScore'.v >= hiScore.v]_vars

\* A second run ended with a score below the high score, which survived.
C3_Witness ==
  /\ nruns = 2
  /\ phase = "gameover"
  /\ ~hiScore.nan
  /\ hiScore.v > FloorScore(score)

\* C4: after the integration step of a Playing frame the character is not
\* below the floor of that frame's ground line, whatever dt, gravity and the
\* velocity before; when the step reaches the floor the character is put on
\* it with velocity 0 and grounded.
C4_FloorClamp ==
  [][(IsFrame /\ phase = "playing") =>
       /\ charY' <= FloorY(gndY)
       /\ (charY + charVy + physicsRef.gravity >= FloorY(gndY) =>
             charY' = FloorY(gndY) /\ charVy' = 0 /\ grounded')]_vars

\* A frame has just clamped the character to the floor of a resized window
\* under a tuned gravity.
C4_Witness ==
  /\ op = "frame"
  /\ phase = "playing"
  /\ h # InitViewport[2]
  /\ physicsRef.gravity # PHYSICS_DEFAULTS.gravity
  /\ charY = FloorY(gndY)
  /\ charVy = 0
  /\ grounded
  /\ nframes >= 2

\* C5: a press in Playing with grounded set gives the character the jump
\* force in force and clears grounded; with grounded clear it changes nothing
\* of the game, and the frame that later lands the character leaves it at
\* rest (no jump was queued).
C5_JumpOnlyGrounded ==
  [][/\ (IsAction /\ phase = "playing" /\ grounded) =>
          /\ charVy' = physicsRef.jumpForce
          /\ ~grounded'
          /\ phase' = "playing"
     /\ (IsAction /\ phase = "playing" /\ ~grounded) =>
          UNCHANGED <<gameVars, phase, frame, frameTick, w, h, gndY>>
     /\ (IsFrame /\ phase = "playing" /\ ~grounded /\ grounded') =>
          charVy' = 0 /\ charY' = FloorY(gndY)]_vars

\* A press has just been ignored: the character, airborne after a jump with
\* the tuned jump force, keeps the velocity the frames gave it.
C5_Witness ==
  /\ op = "action"
  /\ phase = "playing"
  /\ ~grounded
  /\ physicsRef.jumpForce # PHYSICS_DEFAULTS.jumpForce
  /\ charVy # physicsRef.jumpForce
  /\ charY < FloorY(gndY)

\* C6: a press in GameOver starts a new run: phase Playing, score 0, speed
\* the initSpeed in force, no obstacles, and the hiScore held before it.
C6_Retry ==
  [][(IsAction /\ phase = "gameover") =>
       /\ phase' = "playing"
       /\ score' = 0
       /\ speed' = physicsRef.initSpeed
       /\ obs' = <<>>
       /\ hiScore' = hiScore]_vars

\* The state a retry has just built, after a run that scored and left an
\* obstacle on screen.
C6_Witness ==
  /\ op = "action"
  /\ nruns = 2
  /\ phase = "playing"
  /\ score = 0
  /\ obs = <<>>
  /\ ~hiScore.nan
  /\ hiScore.v > 0

\* C7: a frame that starts in Intro or GameOver changes none of score, speed,
\* run time, character position, velocity and grounded flag, obstacles, spawn
\* countdown, scroll offsets, hiScore and the stored value.
C7_IdleFrame ==
  [][(IsFrame /\ phase # "playing") => UNCHANGED gameVars]_vars

\* Frames have run in GameOver, over the obstacle that ended the run.
C7_Witness ==
  /\ op = "frame"
  /\ phase = "gameover"
  /\ nframes = MaxIdleFrames
  /\ frameTick > 0
  /\ Len(obs) > 0

\* The keys of PhysicsConfig the speed is computed from.
SpeedCfg(cfg) == <<cfg.initSpeed, cfg.maxSpeed, cfg.speedRate>>

\* C8 as stated: from one Playing frame of a run to the next the speed never
\* decreases, whatever the settings panel did between the two.
C8_SpeedNeverDecreases ==
  [][(IsFrame /\ phase = "playing" /\ cfgRead # NoCfg) => speed' >= speed]_vars

\* C8, amended: from one Playing frame of a run to the next the speed does
\* not decrease when the second frame reads the initSpeed, maxSpeed and
\* speedRate the first one read.
C8_SpeedMonotoneSameConfig ==
  [][(IsFrame /\ phase = "playing" /\ SpeedCfg(cfgRead) = SpeedCfg(physicsRef))
       => speed' >= speed]_vars

\* Two Playing frames in a row read the same configuration and the speed has
\* grown above initSpeed.
C8_Witness ==
  /\ op = "frame"
  /\ phase = "playing"
  /\ nframes >= 2
  /\ cfgRead = physicsRef
  /\ speed > physicsRef.initSpeed
  /\ speed < physicsRef.maxSpeed

\* C9: in every reachable state speed <= the maxSpeed in force.
C9_SpeedAtMostMax == speed <= physicsRef.maxSpeed

\* C10: score is never negative; a Playing frame adds speed * dt * 0.0009 to
\* it and never lowers it; nothing else changes it but the retry, which
\* resets it to 0.
C10_Score ==
  /\ [](score >= 0)
  /\ [][/\ (IsFrame /\ phase = "playing") =>
             /\ score' = score + (speed * (t' - t) * 9) \div 100
             /\ score' >= score
        /\ score' # score =>
             \/ IsFrame /\ phase = "playing"
             \/ IsAction /\ phase = "gameover" /\ score' = 0]_vars

\* Score has accrued again in the run a retry started from 0.
C10_Witness ==
  /\ nruns = 2
  /\ phase = "playing"
  /\ op = "frame"
  /\ score > 0
  /\ ~hiScore.nan
  /\ hiScore.v > FloorScore(score)

\* C11: in every reachable state the character is not below the floor of
\* the current viewport height.
C11_YAtMostFloor == charY <= FloorY(gndY)

\* C12: in every reachable state grounded is true exactly when the character
\* stands on the floor of the current viewport height with velocity 0.
C12_GroundedIffOnFloor ==
  grounded <=> (charY = FloorY(gndY) /\ charVy = 0)

\* A stored value that parseInt reads as a non-negative integer in full.
IsNatString(item) ==
  /\ item # Null
  /\ Len(item) > 0
  /\ \A i \in 1..Len(item) : IsDigit(item[i])

\* C14: a missing or unparseable stored high score gives hiScore = 0 at
\* construction, and hiScore is an integer in every later state.
C14_MalformedIsZero ==
  /\ (op = "mount" /\ ~IsNatString(stored)) => hiScore = Num(0)
  /\ ~hiScore.nan

\* C16: whatever the gap between two loop invocations, the frame advances
\* time by at most 50 ms, integrates the character once and adds at most one
\* obstacle.
C16_OneClampedStep ==
  [][IsFrame =>
       /\ frameTick' <= frameTick + MAX_DT * Centi
       /\ phase = "playing" =>
            /\ t' - t >= 0
            /\ t' - t <= MAX_DT
            /\ \/ /\ charVy' = charVy + physicsRef.gravity
                  /\ charY' = charY + charVy'
               \/ /\ charY + charVy + physicsRef.gravity >= FloorY(gndY)
                  /\ charY' = FloorY(gndY)
                  /\ charVy' = 0
            /\ Len(obs') <= Len(obs) + 1]_vars

\* The frame that brings the first countdown to zero has spawned exactly one
\* obstacle, over which the character is in the air.
C16_Witness ==
  /\ op = "frame"
  /\ phase = "playing"
  /\ t = FIRST_GAP_MS
  /\ Len(obs) = 1
  /\ ~grounded

\* C17: a resize to the dimensions an earlier resize already set leaves gndY
\* and the number of stars as the first left them, and no resize changes
\* score or phase.
C17_ResizeIdempotent ==
  [][IsResize =>
       /\ score' = score
       /\ phase' = phase
       /\ op' = "resizeSame" =>
            /\ gndY' = gndY
            /\ stars'.n = stars.n]_vars

\* A second resize to the same dimensions has just run, in a run that has
\* scored.
C17_Witness ==
  /\ op = "resizeSame"
  /\ nresizes = 2
  /\ h # InitViewport[2]
  /\ phase = "playing"
  /\ score > 0

\* The right edge of obstacle o, in px/100.
RightEdge(o) == o.x + o.w * Centi

\* C13: after every frame every obstacle of the list has its right edge
\* beyond -60; a Playing frame removes exactly the obstacles whose right
\* edge, after the move of that frame, is at or left of -60, keeps the
\* others in order, and adds at most the one it spawns.
C13_CullAtThreshold ==
  /\ [](\A i \in 1..Len(obs) : RightEdge(obs[i]) > CULL_X * Centi)
  /\ [][(IsFrame /\ phase = "playing") =>
          LET step == speed'
              kept == SelectSeq(obs, LAMBDA o : RightEdge(o) - step > CULL_X * Centi)
          IN /\ Len(obs') \in {Len(kept), Len(kept) + 1}
             /\ \A i \in 1..Len(kept) : obs'[i] = [kept[i] EXCEPT !.x = @ - step]]_vars

\* The obstacle of the first spawn is gone: at 20 px per frame it left the
\* list 13 frames after it appeared, and the list now starts with a later
\* one.
C13_Witness ==
  /\ op = "frame"
  /\ phase = "playing"
  /\ physicsRef.initSpeed = 2000
  /\ t >= FIRST_GAP_MS + 13 * MAX_DT
  /\ Len(obs) >= 1
  /\ obs[1].x >= 0

\* A run at constant speed with minGap = maxGap = 500.
FixedGapRun ==
  /\ physicsRef.minGap = 500
  /\ physicsRef.maxGap = 500
  /\ physicsRef.initSpeed = physicsRef.maxSpeed
  /\ speed = physicsRef.maxSpeed

\* The distance between obstacle i and the next one of the list, in px/100:
\* the speed times the frames between their spawns.
Spacing(i) == obs[i + 1].x - obs[i].x

\* C19 as stated: with minGap = maxGap = 500 and constant speed s, two
\* successive spawns are 500/s frames apart within one frame, so consecutive
\* obstacles are 500 px apart within one frame's scroll.
C19_SpacingIs500px ==
  FixedGapRun =>
    \A i \in 1..(Len(obs) - 1) :
      /\ Spacing(i) >= 500 * Centi - speed
      /\ Spacing(i) <= 500 * Centi + speed

\* ceil(a / b) for positive b.
CeilDiv(a, b) == (a + b - 1) \div b

\* C19, amended: with minGap = maxGap = 500, constant speed s and frames
\* dt ms apart, two successive spawns are ceil((500/s)(1000/60) / dt) frames
\* apart; here every dt is 50 ms.
C19_SpacingFollowsDt ==
  FixedGapRun =>
    \A i \in 1..(Len(obs) - 1) :
      Spacing(i) =
        speed * CeilDiv((500 * Centi * 5000) \div (3 * speed), MAX_DT * Centi)

\* Two obstacles of such a run are in the list.
C19_Witness ==
  /\ FixedGapRun
  /\ op = "frame"
  /\ Len(obs) >= 2

\* The countdown a spawn may draw under configuration cfg at speed spd lies
\* between the ones of the two gap settings.
InGapRange(gap, cfg, spd) ==
  LET lo == Min(cfg.minGap, cfg.maxGap) * Centi
      hi == Max(cfg.minGap, cfg.maxGap) * Centi
  IN /\ gap >= (lo * 5000) \div (3 * spd)
     /\ gap <= (hi * 5000) \div (3 * spd)

\* C20: a Playing frame computes the speed, the fall and the spawn countdown
\* from the PhysicsConfig physicsRef holds when the frame runs, and a jump
\* takes its impulse from it, whatever the configuration was when the loop
\* was set up.
C20_ReadsCurrentConfig ==
  [][/\ (IsFrame /\ phase = "playing") =>
          /\ speed' = Min(physicsRef.maxSpeed,
                          physicsRef.initSpeed
                            + (score' * physicsRef.speedRate) \div 100000)
          /\ \/ charVy' = charVy + physicsRef.gravity
             \/ /\ charY + charVy + physicsRef.gravity >= FloorY(gndY)
                /\ charVy' = 0
          /\ nextGap - (t' - t) * Centi <= 0 =>
               InGapRange(nextGap', physicsRef, speed')
     /\ (IsAction /\ phase = "playing" /\ grounded) =>
          charVy' = physicsRef.jumpForce]_vars

\* A frame has just spawned and redrawn the countdown from gap settings that
\* were changed after the loop was set up, as were the speed limit and the
\* jump force of the jump the character is in.
C20_Witness ==
  /\ op = "frame"
  /\ t = FIRST_GAP_MS
  /\ Len(obs) = 1
  /\ physicsRef.minGap # PHYSICS_DEFAULTS.minGap
  /\ physicsRef.maxGap # PHYSICS_DEFAULTS.maxGap
  /\ physicsRef.maxSpeed # PHYSICS_DEFAULTS.maxSpeed
  /\ physicsRef.jumpForce # PHYSICS_DEFAULTS.jumpForce
  /\ InGapRange(nextGap, physicsRef, speed)
  /\ ~grounded

\* The character is at rest on the floor.
Landed == grounded /\ charY = FloorY(gndY) /\ charVy = 0

\* C18: once a jump has been accepted in Playing, with gravity > 0 and the
\* frames arriving, the character comes back to rest on the floor unless the
\* phase leaves Playing first. (Jumps made in the first MaxJumpStart frames
\* of a run are followed: MaxLiveFrames leaves them the time to land.)
C18_JumpLands ==
  (phase = "playing" /\ ~grounded /\ nframes <= MaxJumpStart)
    ~> (Landed \/ phase # "playing")

\* A Playing run has gone on past the first spawn, which only a character
\* in the air survives, and the character is back at rest on the floor.
C18_Witness ==
  /\ op = "frame"
  /\ phase = "playing"
  /\ t > FIRST_GAP_MS
  /\ Landed

\* C15: for every PhysicsConfig value, minGap above maxGap and speeds of
\* zero included, the countdown a spawn draws is finite and strictly
\* positive.
C15_CountdownFinitePositive ==
  op = "spawn" => (nextGap # Infinity /\ nextGap > 0)

\* The four comparisons of the overlap formula, on the character box at
\* height y (px/100) and obstacle o, with the ground line at groundY (px).
BoxesOverlap(o, y, groundY) ==
  LET charLeft   == 12200
      charRight  == 18100
      charTop    == y + 800
      charBottom == y + 9200
      obsLeft    == o.x
      obsRight   == o.x + 100 * o.w
      obsTop     == 100 * (groundY - o.h)
  IN /\ charRight > obsLeft + 400
     /\ charLeft < obsRight - 400
     /\ charBottom > obsTop + 400
     /\ charTop < 100 * groundY

\* C21: a Playing frame ends in GameOver exactly when some obstacle of the
\* list, as moved and culled by that frame, overlaps the character box taken
\* at the y the frame integrated.
C21_GameOverIffOverlap ==
  [][(IsFrame /\ phase = "playing") =>
       (phase' = "gameover" <=>
          \E i \in 1..Len(obs') : BoxesOverlap(obs'[i], charY', gndY))]_vars

\* A frame has ended the run on an obstacle the character, in the air, did
\* not clear.
C21_Witness ==
  /\ op = "frame"
  /\ phase = "gameover"
  /\ ~grounded
  /\ charY < FloorY(gndY)
  /\ \E i \in 1..Len(obs) : BoxesOverlap(obs[i], charY, gndY)

Survivors(list, s) == SelectSeq(list, LAMBDA o : o.x - s > CULL_X * Centi)

C23_ResizeRegeneratesAll ==
  [][IsResize =>
       /\ stars' = genStars(w', gndY')
       /\ far'.gen = far.gen + 1
       /\ near'.gen = near.gen + 1]_vars

\* A press that starts a new run after a GameOver.
IsRetry == op' = "action" /\ phase = "gameover"

\* C23 (amended): a new run regenerates the far layer, the near layer and
\* the star field; a resize event regenerates the star field only and keeps
\* both building layers as they are.
C23_SceneryRegeneration ==
  [][/\ IsRetry =>
          /\ stars' = genStars(w, gndY)
          /\ far'.gen = far.gen + 1
          /\ near'.gen = near.gen + 1
          /\ far'.totalW = far'.count * (far'.bw + far'.gap)
     /\ IsResize =>
          /\ stars' = genStars(w', gndY')
          /\ far' = far
          /\ near' = near]_vars

\* A second run, begun after a resize, on layers of the second generation.
C23_Witness ==
  /\ nruns = 2
  /\ nresizes = 1
  /\ far.gen = 1
  /\ near.gen = 1
  /\ stars = genStars(w, gndY)

\* C24: the frames of GameOver draw the held death frame under an alpha that
\* differs from the one of the frame before, and leave the run-frame index
\* where it is.
C24_PulseChanges ==
  [][(IsFrame /\ phase = "gameover") =>
       /\ CharAlpha(phase', t') # CharAlpha(phase, t)
       /\ frame' = frame]_vars

\* The copies of a layer's buildings that drawLayer fills leave no stretch of
\* 0..width (px) without one: every x sampled along it lies in the slot -- the
\* building and the gap after it -- of some building drawn.
CoversViewport(layer, offset, width) ==
  \A k \in 0..8 :
    LET x == ((k * width) \div 8) * 10000
    IN \E b \in drawLayer(layer, offset, width) :
         b.bx <= x /\ x < b.bx + (layer.bw + layer.gap) * 10000

\* C25: drawLayer covers the whole width of the canvas with copies of any
\* layer of positive totalW, at any scroll offset, and draws nothing for a
\* layer of totalW = 0.
C25_LayerCoversViewport ==
  op = "draw" =>
    /\ far.totalW > 0 => CoversViewport(far, farOff, w)
    /\ near.totalW > 0 => CoversViewport(near, nearOff, w)
    /\ far.totalW = 0 => drawLayer(far, farOff, w) = {}

\* C26: persistent storage is written once per run, by the frame that takes
\* the run from Playing to GameOver, and by nothing else: every step adds to
\* the count of writes 1 if it is that frame and 0 if it is not, so that the
\* count is always the number of runs that have ended.
C26_OneWritePerRun ==
  [][/\ writes' = writes + (IF IsFrame /\ phase = "playing" /\ phase' = "gameover"
                              THEN 1 ELSE 0)
     /\ writes' = nruns' - (IF phase' = "gameover" THEN 0 ELSE 1)
     /\ writes' = writes => stored' = stored]_vars

\* Two runs have ended, each with its write.
C26_Witness ==
  /\ nruns = 2
  /\ phase = "gameover"
  /\ writes = 2
  /\ nresizes = 1

\* C27: the Playing frame that follows a jump taken from the floor leaves the
\* character above the floor and not grounded, whatever gravity and jumpForce
\* the sliders have set.
C27_JumpLeavesFloor ==
  [][(/\ IsFrame
      /\ phase = "playing"
      /\ op = "action"
      /\ ~grounded
      /\ charY = FloorY(gndY)
      /\ charVy = physicsRef.jumpForce) =>
       (charY' < FloorY(gndY) /\ ~grounded')]_vars

\* C28: the phase of the UI layer is the phase of the GameState in every
\* state, each change of the one coming with the same change of the other;
\* the overlay shows the intro block exactly in Intro, the game-over block
\* exactly in GameOver and nothing in Playing.
C28_UiPhaseFollows ==
  /\ uiPhase = phase
  /\ Overlay(uiPhase) = CASE phase = "intro" -> {"intro"}
                          [] phase = "gameover" -> {"gameover"}
                          [] OTHER -> {}

\* A start, a collision and a retry have happened, and the run is on.
C28_Witness ==
  /\ nruns = 2
  /\ phase = "playing"
  /\ uiPhase = "playing"
  /\ op = "frame"
  /\ Overlay(uiPhase) = {}

\* The timers waiting to fire.
PendingTimers == { id \in 1..Len(timers) : timers[id].state = "pending" }

\* The music is off for the scheduler: the effect has run with music off, or
\* the component is gone.
MusicIsOff == ~musicSeen \/ ~mounted

\* With the music off no timer waits; never does more than one; and the
\* notes of a loop are scheduled only while the music is on.
TimersCancelled ==
  /\ [](MusicIsOff => PendingTimers = {})
  /\ [](Cardinality(PendingTimers) <= 1)
  /\ [][loops' # loops => (musicSeen' /\ mounted')]_vars

\* C29: once the music is off the pending timer is cancelled and no note is
\* scheduled until it is on again, at most one timer is pending at any time,
\* and every context that is closed has had close() called on it once.
C29_OneTimerOneClose ==
  /\ TimersCancelled
  /\ [](\A c \in 1..Len(ctxs) :
          /\ ctxs[c].closes <= 1
          /\ (MusicIsOff \/ c # audioCtxRef) => ctxs[c].closes = 1)

\* The music is on, and the effect has run with it on.
MusicIsOn == music /\ musicSeen /\ mounted

\* The time at which timer id is to fire.
Due(id) == timers[id].set + timers[id].delay

\* The time at which loop i ends.
LoopEnd(i) == ctxs[loops[i].ctx].born + loops[i].start + LoopDur

\* Every loop has its timer, set for 0.4 s before the loop's end or, when
\* that is past, for at once; the loop a timer schedules starts where the
\* loop before it ends.
TimersChainLoops ==
  /\ Len(timers) = Len(loops)
  /\ \A i \in 1..Len(loops) :
       /\ timers[i].ctx = loops[i].ctx
       /\ timers[i].delay >= 0
       /\ Due(i) = Max(timers[i].set, LoopEnd(i) - RESCHEDULE_LEAD)
       /\ timers[i].next = loops[i].start + LoopDur
  /\ \A i \in 1..(Len(loops) - 1) :
       loops[i + 1].ctx = loops[i].ctx =>
         loops[i + 1].start = loops[i].start + LoopDur

====
